---- MODULE Spec2Model ----
(***************************************************************************)
(* universal-subnet-runner: the network lifecycle orchestrator.           *)
(*                                                                         *)
(* Two variants of the program are modelled side by side:                  *)
(*   "history"  src/main.go          one subnet over the default nodes,    *)
(*                                   port shift from a persisted history   *)
(*   "multi"    src/unnamed/part_000 --amount-of-subnets subnets of        *)
(*                                   subnetSize nodes each                 *)
(* One process runs at a time; runs follow each other on the same host and *)
(* share the persisted history file.  The main goroutine's position is pc, *)
(* the signal-listener goroutine's (history variant) is lpc.  Calls into   *)
(* the avalanche-network-runner library return success or an error, the    *)
(* choice being the environment's.                                         *)
(***************************************************************************)
EXTENDS Integers, Sequences, FiniteSets, TLC

\* ---- bounds of the model ------------------------------------------------
MaxSubnets == 3      \* largest --amount-of-subnets tried
MaxRuns    == 3      \* runs executed one after another on the host
MaxSignals == 2      \* SIGINT/SIGTERM deliveries per run
ExtraNodes == 2      \* surplus nodes tried by the partition-only specification
MaxBytes   == 2      \* longest file content tried by the copy-only specification

\* ---- program constants --------------------------------------------------
subnetSize   == 3
defaultShift == 10
\* local.NewDefaultConfig: number of node configs and their base ports
DefaultNodeCount == 5
DefaultHTTPPort  == 9650

Variants   == {"history", "multi"}
\* values nw.GetNetworkID may return
NetworkIDs == {1337, 1338}
\* --amount-of-subnets values tried
SubnetCounts == (-1 .. MaxSubnets) \cup {-1431655765, 1431655766}

VARIABLES
    variant,            \* which program this run executes
    amountOfSubnets,    \* flag --amount-of-subnets (multi)
    runs,               \* runs started on this host so far
    pc,                 \* main goroutine: the statement it executes next
    err,                \* what run is returning: "nil", "err" or "panic"
    exitCode,           \* process exit status, -1 while none
    file,               \* persisted history: [state, records], see HistoryFile
    configs,            \* global configs slice of this process
    shift,              \* port shift computed by run
    nodePorts,          \* nwConfig.NodeConfigs[i].Flags: <<http-port, staking-port>>
    nw,                 \* network handle: "none", "up", "stopped"
    stopCalls,          \* nw.Stop calls made on this run's handle
    nodeNames,          \* result of nw.GetNodeNames
    i,                  \* loop index of the loop pc is in (0-based, as in the code)
    copied,             \* nodes whose data dir holds the plugin
    blockchainSpecs,    \* participant lists of the specs built
    chains,             \* chain IDs returned by CreateBlockchains
    registry,           \* library state: chain ID -> participants of its subnet
    rpcUrls,            \* published URLs: <<node, port, chain ID>>
    notified,           \* signal.Notify in force
    signalChan,         \* number of signals buffered in the channel (capacity 1)
    signalChanClosed,
    closedOnShutdownCh, \* closed?
    lpc,                \* listener goroutine (history variant)
    sigCount,           \* signals delivered to this process
    sigSinceBoot,       \* of these, delivered after local.NewNetwork succeeded
    sigAt,              \* where main was when the first of those arrived, else "none"
    cpc,                \* a call of copy(src, dst): the statement it executes next
    src,                \* copy: the source path's file
    dst,                \* copy: the destination path's file
    dst0,               \* copy: the destination path's file when copy was called
    ret,                \* copy: its results [n, err]
    peerPc,             \* another history-variant process on the host: "idle", "loaded"
    peerConfigs         \* its global configs slice

procVars == <<pc, err, exitCode>>
histVars == <<file, configs, shift, nodePorts>>
netVars  == <<nw, stopCalls, nodeNames>>
workVars == <<i, copied, blockchainSpecs, chains, registry, rpcUrls>>
sigVars  == <<notified, signalChan, signalChanClosed, closedOnShutdownCh, lpc>>
envVars  == <<sigCount, sigSinceBoot, sigAt>>
runVars  == <<variant, amountOfSubnets, runs>>
fsVars   == <<cpc, src, dst, dst0, ret>>
peerVars == <<peerPc, peerConfigs>>
mainVars == <<runVars, procVars, histVars, netVars, workVars, sigVars, envVars>>
vars == <<mainVars, fsVars, peerVars>>

\* ---- helpers ------------------------------------------------------------
\* Go slice expression s[lo:hi] on a slice whose capacity equals its length
SliceOK(s, lo, hi) == 0 <= lo /\ lo <= hi /\ hi <= Len(s)
Slice(s, lo, hi)   == SubSeq(s, lo + 1, hi)
\* Go s[k], 0-based
At(s, k) == s[k + 1]
Range(s) == {s[k] : k \in 1 .. Len(s)}

Terminal == {"exited", "killed"}
Alive    == pc \notin Terminal

\* uint32(k*n) as Go computes it: the low 32 bits of the product, kept as two
\* 16-bit halves [hi, lo] (n may be negative: two's complement)
Uint32Times(k, n) ==
    LET lo16 == n % 65536
        hi16 == (n \div 65536) % 65536
        plo  == k * lo16
        phi  == k * hi16 + (plo \div 65536)
    IN  [hi |-> phi % 65536, lo |-> plo % 65536]

\* the node count run asks NewDefaultConfigNNodes for
RequestedNodes(n) == Uint32Times(subnetSize, n)

\* largest cluster the host can start; larger requests end in an error
HostNodeLimit == subnetSize * MaxSubnets
Bootstrappable(count) == count.hi = 0 /\ count.lo <= HostNodeLimit

\* node names in the order GetNodeNames returns them
NamesOf(count) == [k \in 1 .. count |-> 100 + k]

\* ports of the k-th (0-based) default node config
BasePorts(k) == <<DefaultHTTPPort + 2 * k, DefaultHTTPPort + 2 * k + 1>>

\* ---- persisted history --------------------------------------------------
HistoryFile(st, recs) == [state |-> st, records |-> recs]
InitialFiles ==
    {HistoryFile("absent", <<>>), HistoryFile("unreadable", <<>>),
     HistoryFile("corrupt", <<>>), HistoryFile("ok", <<>>)}

NetworkConfig(id, sh) == [NetworkID |-> id, PortShifting |-> sh]

\* variant: the shift grows by one per record instead of by defaultShift
PortShiftAdded(cfgs) == defaultShift + Len(cfgs)

\* shift := defaultShift * len(configs)
PortShift(cfgs) == defaultShift * Len(cfgs)

\* the two port flags of node config k (0-based) after the shift is added
ShiftedPorts(k, sh) == <<BasePorts(k)[1] + sh, BasePorts(k)[2] + sh>>

\* ---- files as copy sees them -------------------------------------------
File(k, c, m) == [kind |-> k, content |-> c, mode |-> m]
NoFile == File("missing", <<>>, "none")
NoResult == [n |-> 0, err |-> FALSE]
\* no copy call and no other process are being followed
NoCopy == cpc = "idle" /\ src = NoFile /\ dst = NoFile /\ dst0 = NoFile /\ ret = NoResult
NoPeer == peerPc = "idle" /\ peerConfigs = <<>>

\* ---- a process starts ---------------------------------------------------
FreshProcess ==
    /\ pc = "main" /\ err = "nil" /\ exitCode = -1
    /\ configs = <<>> /\ shift = 0 /\ nodePorts = <<>>
    /\ nw = "none" /\ stopCalls = 0 /\ nodeNames = <<>>
    /\ i = 0 /\ copied = {} /\ blockchainSpecs = <<>> /\ chains = <<>>
    /\ registry = <<>> /\ rpcUrls = <<>>
    /\ notified = FALSE /\ signalChan = 0 /\ signalChanClosed = FALSE
    /\ closedOnShutdownCh = FALSE /\ lpc = "off"
    /\ sigCount = 0 /\ sigSinceBoot = 0 /\ sigAt = "none"

Init ==
    /\ variant \in Variants
    /\ amountOfSubnets \in (IF variant = "multi" THEN SubnetCounts ELSE {1})
    /\ runs = 1
    /\ file \in InitialFiles
    /\ FreshProcess
    /\ NoCopy /\ NoPeer

\* run returns e with the deferred Stop registered
ReturnDeferred(e) == pc' = "deferStop" /\ err' = e
\* variant: the deferred Stop is registered before the error check
ReturnEarlyDeferred == pc' = "deferStop" /\ err' = "err" /\ exitCode' = exitCode

\* run returns an error before the defer statement; main exits with status 1
ReturnEarly == pc' = "exited" /\ err' = "err" /\ exitCode' = 1

\* ---- main goroutine -----------------------------------------------------
\* variant: a missing history file is treated like an unreadable one
LoadHistoryAbsentFatal ==
    /\ pc = "main" /\ variant = "history"
    /\ file.state \in {"absent", "ok"}
    /\ IF file.state = "ok"
       THEN configs' = file.records /\ pc' = "newConfig" /\ exitCode' = exitCode
       ELSE configs' = configs /\ pc' = "exited" /\ exitCode' = 0
    /\ UNCHANGED <<err, file, shift, nodePorts>>
    /\ UNCHANGED <<runVars, fsVars, peerVars, netVars, workVars, sigVars, envVars>>

\* main.go 87-103: the history file exists and parses, or os.Stat fails
LoadHistory ==
    /\ pc = "main" /\ variant = "history"
    /\ file.state \in {"absent", "ok"}
    /\ configs' = (IF file.state = "ok" THEN file.records ELSE <<>>)
    /\ pc' = "newConfig"
    /\ UNCHANGED <<err, exitCode, file, shift, nodePorts>>
    /\ UNCHANGED <<runVars, fsVars, peerVars, netVars, workVars, sigVars, envVars>>

\* main.go 92-102: ReadFile or Unmarshal fails: log.Error, return
LoadHistoryFail ==
    /\ pc = "main" /\ variant = "history"
    /\ file.state \in {"unreadable", "corrupt"}
    /\ pc' = "exited" /\ exitCode' = 0
    /\ UNCHANGED <<err, runVars, fsVars, peerVars, histVars, netVars, workVars, sigVars, envVars>>

\* part_000 131-132: signal.Notify at the top of run
NotifyFirst ==
    /\ pc = "main" /\ variant = "multi"
    /\ notified' = TRUE
    /\ pc' = "newConfig"
    /\ UNCHANGED <<err, exitCode, signalChan, signalChanClosed, closedOnShutdownCh, lpc>>
    /\ UNCHANGED <<runVars, fsVars, peerVars, histVars, netVars, workVars, envVars>>

\* main.go 160-170 / part_000 135-140
NewConfigOk ==
    /\ pc = "newConfig"
    /\ IF variant = "history"
       THEN /\ shift' = PortShift(configs)
            /\ nodePorts' = [k \in 1 .. DefaultNodeCount |-> ShiftedPorts(k - 1, shift')]
       ELSE /\ Bootstrappable(RequestedNodes(amountOfSubnets))
            /\ shift' = shift
            /\ nodePorts' = [k \in 1 .. RequestedNodes(amountOfSubnets).lo |-> BasePorts(k - 1)]
    /\ pc' = "newNetwork"
    /\ UNCHANGED <<err, exitCode, file, configs>>
    /\ UNCHANGED <<runVars, fsVars, peerVars, netVars, workVars, sigVars, envVars>>

NewConfigErr ==
    /\ pc = "newConfig"
    /\ ReturnEarly
    /\ UNCHANGED <<runVars, fsVars, peerVars, histVars, netVars, workVars, sigVars, envVars>>

\* main.go 172-180 / part_000 142-150
NewNetworkOk ==
    /\ pc = "newNetwork"
    /\ nw' = "up"
    /\ pc' = (IF variant = "history" THEN "getNetworkID" ELSE "await1")
    /\ UNCHANGED <<err, exitCode, stopCalls, nodeNames>>
    /\ UNCHANGED <<runVars, fsVars, peerVars, histVars, workVars, sigVars, envVars>>

NewNetworkErr ==
    /\ pc = "newNetwork"
    /\ ReturnEarly
    /\ UNCHANGED <<runVars, fsVars, peerVars, histVars, netVars, workVars, sigVars, envVars>>

\* main.go 182-189
GetNetworkIDOk ==
    /\ pc = "getNetworkID"
    /\ \E id \in NetworkIDs : configs' = Append(configs, NetworkConfig(id, shift))
    /\ pc' = "writeFile"
    /\ UNCHANGED <<err, exitCode, file, shift, nodePorts>>
    /\ UNCHANGED <<runVars, fsVars, peerVars, netVars, workVars, sigVars, envVars>>

GetNetworkIDErr ==
    /\ pc = "getNetworkID"
    /\ ReturnDeferred("err")
    /\ UNCHANGED <<exitCode, runVars, fsVars, peerVars, histVars, netVars, workVars, sigVars, envVars>>

\* variant: only the record of this run is written
WriteFileLast ==
    /\ pc = "writeFile"
    /\ file' = HistoryFile("ok", <<configs[Len(configs)]>>)
    /\ pc' = "notify"
    /\ UNCHANGED <<err, exitCode, configs, shift, nodePorts>>
    /\ UNCHANGED <<runVars, fsVars, peerVars, netVars, workVars, sigVars, envVars>>

\* main.go 192-203
WriteFileOk ==
    /\ pc = "writeFile"
    /\ file' = HistoryFile("ok", configs)
    /\ pc' = "notify"
    /\ UNCHANGED <<err, exitCode, configs, shift, nodePorts>>
    /\ UNCHANGED <<runVars, fsVars, peerVars, netVars, workVars, sigVars, envVars>>

\* variant: the error of the history write is logged and the run goes on
WriteFileErrIgnored ==
    /\ pc = "writeFile"
    /\ file' \in {file, HistoryFile("corrupt", <<>>)}
    /\ pc' = "notify"
    /\ UNCHANGED <<err, exitCode, configs, shift, nodePorts>>
    /\ UNCHANGED <<runVars, fsVars, peerVars, netVars, workVars, sigVars, envVars>>

\* os.WriteFile fails: nothing written, or the file is left truncated
WriteFileErr ==
    /\ pc = "writeFile"
    /\ file' \in {file, HistoryFile("corrupt", <<>>)}
    /\ ReturnDeferred("err")
    /\ UNCHANGED <<exitCode, configs, shift, nodePorts>>
    /\ UNCHANGED <<runVars, fsVars, peerVars, netVars, workVars, sigVars, envVars>>

\* main.go 206-212: signal.Notify and go shutdownOnSignal
NotifyAndListen ==
    /\ pc = "notify"
    /\ notified' = TRUE
    /\ lpc' = "recv"
    /\ pc' = "await1"
    /\ UNCHANGED <<err, exitCode, signalChan, signalChanClosed, closedOnShutdownCh>>
    /\ UNCHANGED <<runVars, fsVars, peerVars, histVars, netVars, workVars, envVars>>

\* await: nw.Healthy returns nil
AwaitOk ==
    /\ pc \in {"await1", "await2"}
    /\ pc' = (IF pc = "await1" THEN "getNodeNames" ELSE "publish")
    /\ i' = 0
    /\ UNCHANGED <<err, exitCode, copied, blockchainSpecs, chains, registry, rpcUrls>>
    /\ UNCHANGED <<runVars, fsVars, peerVars, histVars, netVars, sigVars, envVars>>

\* variant: the error of a health wait is logged and the run goes on
AwaitErrIgnored ==
    /\ pc \in {"await1", "await2"}
    /\ pc' = (IF pc = "await1" THEN "getNodeNames" ELSE "publish")
    /\ err' = "err"
    /\ i' = 0
    /\ UNCHANGED <<exitCode, copied, blockchainSpecs, chains, registry, rpcUrls>>
    /\ UNCHANGED <<runVars, fsVars, peerVars, histVars, netVars, sigVars, envVars>>

\* await: nw.Healthy returns an error (timeout, or the network was stopped)
AwaitErr ==
    /\ pc \in {"await1", "await2"}
    /\ ReturnDeferred("err")
    /\ UNCHANGED <<exitCode, runVars, fsVars, peerVars, histVars, netVars, workVars, sigVars, envVars>>

GetNodeNamesOk ==
    /\ pc = "getNodeNames"
    /\ nodeNames' = NamesOf(Len(nodePorts))
    /\ i' = 0
    /\ pc' = "copy"
    /\ UNCHANGED <<err, exitCode, nw, stopCalls>>
    /\ UNCHANGED <<copied, blockchainSpecs, chains, registry, rpcUrls>>
    /\ UNCHANGED <<runVars, fsVars, peerVars, histVars, sigVars, envVars>>

GetNodeNamesErr ==
    /\ pc = "getNodeNames"
    /\ ReturnDeferred("err")
    /\ UNCHANGED <<exitCode, runVars, fsVars, peerVars, histVars, netVars, workVars, sigVars, envVars>>

\* one iteration of the plugin loop: GetNode and copy succeed
CopyOk ==
    /\ pc = "copy" /\ i < Len(nodeNames)
    /\ copied' = copied \cup {At(nodeNames, i)}
    /\ i' = i + 1
    /\ UNCHANGED <<procVars, blockchainSpecs, chains, registry, rpcUrls>>
    /\ UNCHANGED <<runVars, fsVars, peerVars, histVars, netVars, sigVars, envVars>>

\* variant: the plugin files copied so far are removed when a copy fails
CopyErrRollback ==
    /\ pc = "copy" /\ i < Len(nodeNames)
    /\ copied' = {}
    /\ ReturnDeferred("err")
    /\ UNCHANGED <<exitCode, i, blockchainSpecs, chains, registry, rpcUrls>>
    /\ UNCHANGED <<runVars, fsVars, peerVars, histVars, netVars, sigVars, envVars>>

\* GetNode or copy fails
CopyErr ==
    /\ pc = "copy" /\ i < Len(nodeNames)
    /\ ReturnDeferred("err")
    /\ UNCHANGED <<exitCode, runVars, fsVars, peerVars, histVars, netVars, workVars, sigVars, envVars>>

CopyDone ==
    /\ pc = "copy" /\ i = Len(nodeNames)
    /\ pc' = (IF variant = "multi" THEN "makeSpecs" ELSE "create")
    /\ blockchainSpecs' = (IF variant = "multi" THEN blockchainSpecs ELSE <<nodeNames>>)
    /\ UNCHANGED <<err, exitCode, i, copied, chains, registry, rpcUrls>>
    /\ UNCHANGED <<runVars, fsVars, peerVars, histVars, netVars, sigVars, envVars>>

\* part_000 176: make([]network.BlockchainSpec, 0, amountOfSubnets)
MakeSpecs ==
    /\ pc = "makeSpecs"
    /\ IF amountOfSubnets < 0
       THEN ReturnDeferred("panic") /\ UNCHANGED <<i, blockchainSpecs>>
       ELSE pc' = "partition" /\ err' = err /\ i' = 0 /\ blockchainSpecs' = <<>>
    /\ UNCHANGED <<exitCode, copied, chains, registry, rpcUrls>>
    /\ UNCHANGED <<runVars, fsVars, peerVars, histVars, netVars, sigVars, envVars>>

\* variant: the group offset is not scaled by subnetSize
GroupLoUnscaled(k) == k

\* participants of subnet k: nodeNames[k*subnetSize : (k+1)*subnetSize]
GroupLo(k) == k * subnetSize
GroupHi(k) == (k + 1) * subnetSize

\* part_000 177-185: one iteration of the partition loop
PartitionStep ==
    /\ pc = "partition" /\ i < amountOfSubnets
    /\ IF SliceOK(nodeNames, GroupLo(i), GroupHi(i))
       THEN /\ blockchainSpecs' =
                   Append(blockchainSpecs, Slice(nodeNames, GroupLo(i), GroupHi(i)))
            /\ i' = i + 1
            /\ UNCHANGED <<pc, err>>
       ELSE ReturnDeferred("panic") /\ UNCHANGED <<i, blockchainSpecs>>
    /\ UNCHANGED <<exitCode, copied, chains, registry, rpcUrls>>
    /\ UNCHANGED <<runVars, fsVars, peerVars, histVars, netVars, sigVars, envVars>>

PartitionDone ==
    /\ pc = "partition" /\ i >= amountOfSubnets
    /\ pc' = "create"
    /\ UNCHANGED <<err, exitCode, workVars>>
    /\ UNCHANGED <<runVars, fsVars, peerVars, histVars, netVars, sigVars, envVars>>

\* chain ID the library returns for the k-th (0-based) submitted spec
ChainIDFor(k) == 900 - k

\* main.go 238-251 / part_000 187-190: one chain per spec, in submission order
CreateBlockchainsOk ==
    /\ pc = "create"
    /\ chains' = [k \in 1 .. Len(blockchainSpecs) |-> ChainIDFor(k - 1)]
    /\ registry' = [k \in 1 .. Len(blockchainSpecs) |->
                        <<ChainIDFor(k - 1), Range(blockchainSpecs[k])>>]
    /\ pc' = "await2"
    /\ UNCHANGED <<err, exitCode, i, copied, blockchainSpecs, rpcUrls>>
    /\ UNCHANGED <<runVars, fsVars, peerVars, histVars, netVars, sigVars, envVars>>

CreateBlockchainsErr ==
    /\ pc = "create"
    /\ ReturnDeferred("err")
    /\ UNCHANGED <<exitCode, runVars, fsVars, peerVars, histVars, netVars, workVars, sigVars, envVars>>

\* variant: the node's position inside its subnet is used as the chain index
ChainIndexInSubnet(k) == IF variant = "history" THEN 0 ELSE k % subnetSize

\* index into chains used for node k (0-based): chains[0] / chains[k/subnetSize]
ChainIndex(k) == IF variant = "history" THEN 0 ELSE k \div subnetSize

\* node.GetAPIPort() of node k (0-based): its http-port flag
APIPort(k) == nodePorts[k + 1][1]

\* main.go 259-266 / part_000 198-205: one iteration of the URL loop
PublishStep ==
    /\ pc = "publish" /\ i < Len(nodeNames)
    /\ IF ChainIndex(i) < Len(chains)
       THEN /\ rpcUrls' = Append(rpcUrls,
                   <<At(nodeNames, i), APIPort(i), At(chains, ChainIndex(i))>>)
            /\ i' = i + 1
            /\ UNCHANGED <<pc, err>>
       ELSE ReturnDeferred("panic") /\ UNCHANGED <<i, rpcUrls>>
    /\ UNCHANGED <<exitCode, copied, blockchainSpecs, chains, registry>>
    /\ UNCHANGED <<runVars, fsVars, peerVars, histVars, netVars, sigVars, envVars>>

\* GetNode fails
PublishErr ==
    /\ pc = "publish" /\ i < Len(nodeNames)
    /\ ReturnDeferred("err")
    /\ UNCHANGED <<exitCode, runVars, fsVars, peerVars, histVars, netVars, workVars, sigVars, envVars>>

PublishDone ==
    /\ pc = "publish" /\ i = Len(nodeNames)
    /\ pc' = "running"
    /\ UNCHANGED <<err, exitCode, runVars, fsVars, peerVars, histVars, netVars, workVars, sigVars, envVars>>

\* main.go 270-271: <-closedOnShutdownCh; return nil
WaitClosed ==
    /\ pc = "running" /\ variant = "history"
    /\ closedOnShutdownCh
    /\ ReturnDeferred("nil")
    /\ UNCHANGED <<exitCode, runVars, fsVars, peerVars, histVars, netVars, workVars, sigVars, envVars>>

\* part_000 49-50: sig := <-shutdownSignal
ShutdownRecv ==
    /\ pc = "running" /\ variant = "multi"
    /\ signalChan > 0
    /\ signalChan' = signalChan - 1
    /\ pc' = "sigReset"
    /\ UNCHANGED <<err, exitCode, notified, signalChanClosed, closedOnShutdownCh, lpc>>
    /\ UNCHANGED <<runVars, fsVars, peerVars, histVars, netVars, workVars, envVars>>

\* part_000 51: signal.Reset()
ShutdownReset ==
    /\ pc = "sigReset"
    /\ notified' = FALSE
    /\ pc' = "sigClose"
    /\ UNCHANGED <<err, exitCode, signalChan, signalChanClosed, closedOnShutdownCh, lpc>>
    /\ UNCHANGED <<runVars, fsVars, peerVars, histVars, netVars, workVars, envVars>>

\* part_000 52, 211: close(shutdownSignal); return nil
ShutdownClose ==
    /\ pc = "sigClose"
    /\ signalChanClosed' = TRUE
    /\ ReturnDeferred("nil")
    /\ UNCHANGED <<exitCode, notified, signalChan, closedOnShutdownCh, lpc>>
    /\ UNCHANGED <<runVars, fsVars, peerVars, histVars, netVars, workVars, envVars>>

\* nw.Stop is entered
StopCalled == stopCalls' = stopCalls + 1 /\ nw' = "stopped"

\* main.go 176-180 / part_000 146-150: the deferred function calls nw.Stop
DeferredStop ==
    /\ pc = "deferStop"
    /\ StopCalled
    /\ pc' = "stopping"
    /\ UNCHANGED <<err, exitCode, nodeNames>>
    /\ UNCHANGED <<runVars, fsVars, peerVars, histVars, workVars, sigVars, envVars>>

\* status main ends with after run returned e (a panic ends the process with 2)
ExitStatus(e) == CASE e = "nil" -> 0 [] e = "err" -> 1 [] OTHER -> 2

\* Stop returns, run returns to main, the process exits
StopReturn ==
    /\ pc = "stopping"
    /\ pc' = "exited"
    /\ exitCode' = ExitStatus(err)
    /\ UNCHANGED <<err, runVars, fsVars, peerVars, histVars, netVars, workVars, sigVars, envVars>>

\* ---- listener goroutine (main.go 51-65) ----------------------------------
ListenerRecv ==
    /\ Alive /\ lpc = "recv"
    /\ signalChan > 0
    /\ signalChan' = signalChan - 1
    /\ lpc' = "stop"
    /\ UNCHANGED <<notified, signalChanClosed, closedOnShutdownCh>>
    /\ UNCHANGED <<runVars, fsVars, peerVars, procVars, histVars, netVars, workVars, envVars>>

ListenerStop ==
    /\ Alive /\ lpc = "stop"
    /\ StopCalled
    /\ lpc' = "stopping"
    /\ UNCHANGED <<nodeNames, notified, signalChan, signalChanClosed, closedOnShutdownCh>>
    /\ UNCHANGED <<runVars, fsVars, peerVars, procVars, histVars, workVars, envVars>>

ListenerStopReturn ==
    /\ Alive /\ lpc = "stopping"
    /\ lpc' = "reset"
    /\ UNCHANGED <<notified, signalChan, signalChanClosed, closedOnShutdownCh>>
    /\ UNCHANGED <<runVars, fsVars, peerVars, procVars, histVars, netVars, workVars, envVars>>

ListenerReset ==
    /\ Alive /\ lpc = "reset"
    /\ notified' = FALSE
    /\ lpc' = "closeSig"
    /\ UNCHANGED <<signalChan, signalChanClosed, closedOnShutdownCh>>
    /\ UNCHANGED <<runVars, fsVars, peerVars, procVars, histVars, netVars, workVars, envVars>>

ListenerCloseSignal ==
    /\ Alive /\ lpc = "closeSig"
    /\ signalChanClosed' = TRUE
    /\ lpc' = "closeDone"
    /\ UNCHANGED <<notified, signalChan, closedOnShutdownCh>>
    /\ UNCHANGED <<runVars, fsVars, peerVars, procVars, histVars, netVars, workVars, envVars>>

ListenerCloseDone ==
    /\ Alive /\ lpc = "closeDone"
    /\ closedOnShutdownCh' = TRUE
    /\ lpc' = "done"
    /\ UNCHANGED <<notified, signalChan, signalChanClosed>>
    /\ UNCHANGED <<runVars, fsVars, peerVars, procVars, histVars, netVars, workVars, envVars>>

\* ---- the operating system delivers SIGINT/SIGTERM -----------------------
SignalCounted ==
    /\ sigCount' = sigCount + 1
    /\ sigSinceBoot' = (IF nw = "none" THEN sigSinceBoot ELSE sigSinceBoot + 1)
    /\ sigAt' = (IF nw # "none" /\ sigAt = "none" THEN pc ELSE sigAt)

\* Notify in force: a non-blocking send on the channel of capacity 1
SignalCaught ==
    /\ Alive /\ sigCount < MaxSignals
    /\ notified
    /\ signalChan' = (IF signalChan < 1 THEN signalChan + 1 ELSE signalChan)
    /\ SignalCounted
    /\ UNCHANGED <<notified, signalChanClosed, closedOnShutdownCh, lpc>>
    /\ UNCHANGED <<runVars, fsVars, peerVars, procVars, histVars, netVars, workVars>>

\* no Notify in force (not yet registered, or after signal.Reset): the default
\* disposition ends the process at once; nothing of run executes any more
SignalKills ==
    /\ Alive /\ sigCount < MaxSignals
    /\ ~notified
    /\ pc' = "killed"
    /\ SignalCounted
    /\ UNCHANGED <<err, exitCode, runVars, fsVars, peerVars, histVars, netVars, workVars, sigVars>>

\* ---- the next run on the same host --------------------------------------
Restart ==
    /\ ~Alive /\ runs < MaxRuns
    /\ runs' = runs + 1
    /\ variant' \in Variants
    /\ amountOfSubnets' \in (IF variant' = "multi" THEN SubnetCounts ELSE {1})
    /\ pc' = "main" /\ err' = "nil" /\ exitCode' = -1
    /\ file' = file /\ configs' = <<>> /\ shift' = 0 /\ nodePorts' = <<>>
    /\ nw' = "none" /\ stopCalls' = 0 /\ nodeNames' = <<>>
    /\ i' = 0 /\ copied' = {} /\ blockchainSpecs' = <<>> /\ chains' = <<>>
    /\ registry' = <<>> /\ rpcUrls' = <<>>
    /\ notified' = FALSE /\ signalChan' = 0 /\ signalChanClosed' = FALSE
    /\ closedOnShutdownCh' = FALSE /\ lpc' = "off"
    /\ sigCount' = 0 /\ sigSinceBoot' = 0 /\ sigAt' = "none"
    /\ UNCHANGED <<fsVars, peerVars>>

Next ==
    \/ LoadHistory \/ LoadHistoryFail \/ NotifyFirst
    \/ NewConfigOk \/ NewConfigErr \/ NewNetworkOk \/ NewNetworkErr
    \/ GetNetworkIDOk \/ GetNetworkIDErr \/ WriteFileOk \/ WriteFileErr
    \/ NotifyAndListen
    \/ AwaitOk \/ AwaitErr \/ GetNodeNamesOk \/ GetNodeNamesErr
    \/ CopyOk \/ CopyErr \/ CopyDone
    \/ MakeSpecs \/ PartitionStep \/ PartitionDone
    \/ CreateBlockchainsOk \/ CreateBlockchainsErr
    \/ PublishStep \/ PublishErr \/ PublishDone
    \/ WaitClosed \/ ShutdownRecv \/ ShutdownReset \/ ShutdownClose
    \/ DeferredStop \/ StopReturn
    \/ ListenerRecv \/ ListenerStop \/ ListenerStopReturn \/ ListenerReset
    \/ ListenerCloseSignal \/ ListenerCloseDone
    \/ SignalCaught \/ SignalKills
    \/ Restart

Spec == Init /\ [][Next]_vars

\* ---- the partition loop on its own: any subnet count against any node list
InitPartition ==
    /\ variant = "multi"
    /\ amountOfSubnets \in SubnetCounts
    /\ runs = 1
    /\ file = HistoryFile("absent", <<>>)
    /\ pc = "makeSpecs" /\ err = "nil" /\ exitCode = -1
    /\ configs = <<>> /\ shift = 0
    /\ \E n \in 0 .. subnetSize * MaxSubnets + ExtraNodes :
          /\ nodePorts = [k \in 1 .. n |-> BasePorts(k - 1)]
          /\ nodeNames = NamesOf(n)
          /\ i = n
          /\ copied = Range(NamesOf(n))
    /\ nw = "up" /\ stopCalls = 0
    /\ blockchainSpecs = <<>> /\ chains = <<>> /\ registry = <<>> /\ rpcUrls = <<>>
    /\ notified = TRUE /\ signalChan = 0 /\ signalChanClosed = FALSE
    /\ closedOnShutdownCh = FALSE /\ lpc = "off"
    /\ sigCount = 0 /\ sigSinceBoot = 0 /\ sigAt = "none"
    /\ NoCopy /\ NoPeer

NextPartition == MakeSpecs \/ PartitionStep \/ PartitionDone

SpecPartition == InitPartition /\ [][NextPartition]_vars

\* ======================= the copy helper, statement by statement ==========
\* file contents: byte strings of at most MaxBytes bytes
Bytes == {0, 1}
Contents == UNION {[1 .. n -> Bytes] : n \in 0 .. MaxBytes}
\* what the source path can be: nothing, a directory, a regular file that the
\* process may ("0644") or may not ("0000") open for reading
SourceFiles ==
    {NoFile, File("dir", <<>>, "0755")}
        \cup {File("regular", c, m) : c \in Contents, m \in {"0644", "0000"}}
\* what the destination path can be before the call
DestFiles ==
    {NoFile, File("dir", <<>>, "0755")} \cup {File("regular", c, "0644") : c \in Contents}

\* variant: any existing path passes the mode check
IsPresent(f) == f.kind # "missing"
\* sourceFileStat.Mode().IsRegular()
IsRegular(f) == f.kind = "regular"

\* copy returns (n, e)
CopyReturn(n, e) == ret' = [n |-> n, err |-> e] /\ cpc' = "done"

\* os.Stat(src)
CopyStat ==
    /\ cpc = "stat"
    /\ IF src.kind = "missing" THEN CopyReturn(0, TRUE)
       ELSE cpc' = "mode" /\ ret' = ret
    /\ UNCHANGED <<mainVars, src, dst, dst0, peerVars>>

\* if !sourceFileStat.Mode().IsRegular() { return 0, fmt.Errorf(...) }
CopyMode ==
    /\ cpc = "mode"
    /\ IF IsRegular(src) THEN cpc' = "open" /\ ret' = ret
       ELSE CopyReturn(0, TRUE)
    /\ UNCHANGED <<mainVars, src, dst, dst0, peerVars>>

\* os.Open(src)
CopyOpen ==
    /\ cpc = "open"
    /\ IF src.mode = "0000" THEN CopyReturn(0, TRUE)
       ELSE cpc' = "create" /\ ret' = ret
    /\ UNCHANGED <<mainVars, src, dst, dst0, peerVars>>

\* os.Create(dst): creates the file with mode 0666 or truncates the one there
CopyCreateOk ==
    /\ cpc = "create"
    /\ dst.kind # "dir"
    /\ dst' = File("regular", <<>>, IF dst.kind = "regular" THEN dst.mode ELSE "0666")
    /\ cpc' = "io"
    /\ UNCHANGED <<mainVars, src, dst0, ret, peerVars>>

\* os.Create(dst) fails (a directory, a missing parent, no permission)
CopyCreateErr ==
    /\ cpc = "create"
    /\ CopyReturn(0, TRUE)
    /\ UNCHANGED <<mainVars, src, dst, dst0, peerVars>>

\* nBytes, err := io.Copy(destination, source), all bytes written
CopyIOOk ==
    /\ cpc = "io"
    /\ src.kind = "regular"
    /\ dst' = [dst EXCEPT !.content = src.content]
    /\ ret' = [n |-> Len(src.content), err |-> FALSE]
    /\ cpc' = "chmod"
    /\ UNCHANGED <<mainVars, src, dst0, peerVars>>

\* io.Copy stops with an error after k bytes; copy goes on to Chmod all the same
CopyIOErr ==
    /\ cpc = "io"
    /\ \E k \in 0 .. Len(src.content) :
          /\ dst' = [dst EXCEPT !.content = SubSeq(src.content, 1, k)]
          /\ ret' = [n |-> k, err |-> TRUE]
    /\ cpc' = "chmod"
    /\ UNCHANGED <<mainVars, src, dst0, peerVars>>

\* os.Chmod(dst, 0777) succeeds; return nBytes, err
CopyChmodOk ==
    /\ cpc = "chmod"
    /\ dst' = [dst EXCEPT !.mode = "0777"]
    /\ CopyReturn(ret.n, ret.err)
    /\ UNCHANGED <<mainVars, src, dst0, peerVars>>

\* os.Chmod fails: return 0, err
CopyChmodErr ==
    /\ cpc = "chmod"
    /\ CopyReturn(0, TRUE)
    /\ UNCHANGED <<mainVars, src, dst, dst0, peerVars>>

\* one call of copy(src, dst) from the plugin loop, on any pair of paths
InitCopy ==
    /\ variant \in Variants
    /\ amountOfSubnets = 1
    /\ runs = 1
    /\ file = HistoryFile("absent", <<>>)
    /\ pc = "copy" /\ err = "nil" /\ exitCode = -1
    /\ configs = <<>> /\ shift = 0
    /\ nodePorts = [k \in 1 .. subnetSize |-> BasePorts(k - 1)]
    /\ nodeNames = NamesOf(subnetSize)
    /\ i = 0 /\ copied = {}
    /\ nw = "up" /\ stopCalls = 0
    /\ blockchainSpecs = <<>> /\ chains = <<>> /\ registry = <<>> /\ rpcUrls = <<>>
    /\ notified = TRUE /\ signalChan = 0 /\ signalChanClosed = FALSE
    /\ closedOnShutdownCh = FALSE /\ lpc = "off"
    /\ sigCount = 0 /\ sigSinceBoot = 0 /\ sigAt = "none"
    /\ cpc = "stat"
    /\ src \in SourceFiles
    /\ dst0 \in DestFiles
    /\ dst = dst0
    /\ ret = NoResult
    /\ NoPeer

NextCopy ==
    \/ CopyStat \/ CopyMode \/ CopyOpen
    \/ CopyCreateOk \/ CopyCreateErr
    \/ CopyIOOk \/ CopyIOErr
    \/ CopyChmodOk \/ CopyChmodErr

SpecCopy == InitCopy /\ [][NextCopy]_vars

\* ======================= runs that overlap in time ========================
\* a second process of the history variant on the same host, followed from its
\* load of the history file to its write of it
\* main.go 87-103: the other process loads the file
PeerLoad ==
    /\ peerPc = "idle" /\ runs < MaxRuns
    /\ file.state \in {"absent", "ok"}
    /\ runs' = runs + 1
    /\ peerConfigs' = (IF file.state = "ok" THEN file.records ELSE <<>>)
    /\ peerPc' = "loaded"
    /\ UNCHANGED <<variant, amountOfSubnets, fsVars>>
    /\ UNCHANGED <<procVars, histVars, netVars, workVars, sigVars, envVars>>

\* main.go 164-203: the other process bootstraps with its shift, appends its
\* record to what it loaded and writes the file
PeerWrite ==
    /\ peerPc = "loaded"
    /\ \E id \in NetworkIDs :
          file' = HistoryFile("ok",
                      Append(peerConfigs, NetworkConfig(id, PortShift(peerConfigs))))
    /\ peerPc' = "idle" /\ peerConfigs' = <<>>
    /\ UNCHANGED <<runVars, fsVars, procVars, configs, shift, nodePorts>>
    /\ UNCHANGED <<netVars, workVars, sigVars, envVars>>

\* main.go 160-185: the other process fails before its write
PeerFail ==
    /\ peerPc = "loaded"
    /\ peerPc' = "idle" /\ peerConfigs' = <<>>
    /\ UNCHANGED <<mainVars, fsVars>>

\* the next run of the history variant
RestartHistory == Restart /\ variant' = "history"

InitOverlap == Init /\ variant = "history"

NextOverlap ==
    \/ LoadHistory \/ LoadHistoryFail
    \/ NewConfigOk \/ NewConfigErr \/ NewNetworkOk \/ NewNetworkErr
    \/ GetNetworkIDOk \/ GetNetworkIDErr \/ WriteFileOk \/ WriteFileErr
    \/ NotifyAndListen
    \/ AwaitOk \/ AwaitErr \/ GetNodeNamesOk \/ GetNodeNamesErr
    \/ CopyOk \/ CopyErr \/ CopyDone
    \/ CreateBlockchainsOk \/ CreateBlockchainsErr
    \/ PublishStep \/ PublishErr \/ PublishDone
    \/ WaitClosed
    \/ DeferredStop \/ StopReturn
    \/ ListenerRecv \/ ListenerStop \/ ListenerStopReturn \/ ListenerReset
    \/ ListenerCloseSignal \/ ListenerCloseDone
    \/ SignalCaught \/ SignalKills
    \/ RestartHistory
    \/ PeerLoad \/ PeerWrite \/ PeerFail

SpecOverlap == InitOverlap /\ [][NextOverlap]_vars

\* ======================= claims ===========================================
Bootstrapped == nw # "none"

\* C1: in both variants a run whose bootstrap succeeded and that ends by run
\* returning (signal while Running, error after bootstrap, signal during a
\* health wait) has called Stop on the network exactly once, and Stop is never
\* called twice.
StopExactlyOnce ==
    /\ stopCalls <= 1
    /\ (pc = "exited" /\ Bootstrapped) => stopCalls = 1

\* phases of the pipeline in program order
Rank(p) ==
    CASE p \in {"getNetworkID", "writeFile", "notify"} -> 0
      [] p = "await1"                   -> 1
      [] p = "getNodeNames"             -> 2
      [] p = "copy"                     -> 3
      [] p \in {"makeSpecs", "partition"} -> 4
      [] p = "create"                   -> 5
      [] p = "await2"                   -> 6
      [] p = "publish"                  -> 7
      [] OTHER                          -> 8
LaterPhases == {"copy", "create", "await2", "publish"}
\* the main goroutine executes a statement of the phase it is in
MainStepsIn(p) == pc = p /\ (pc' # pc \/ i' # i)

\* C2: in both variants, once a termination signal has been delivered after
\* bootstrap and before Running, no phase that had not yet started (plugin
\* distribution, CreateBlockchains, second health wait, URL publication) is
\* executed.
SignalAbortsPipeline ==
    [][ \A p \in LaterPhases :
          (sigAt # "none" /\ Rank(sigAt) < Rank(p)) => ~MainStepsIn(p) ]_vars

\* C3: in the multi-subnet variant, a health wait that returns after a
\* termination signal arrived returns with an error.
SignalCancelsHealthWait ==
    [][ (variant = "multi" /\ pc \in {"await1", "await2"} /\ sigAt = pc /\ pc' # pc)
          => (pc' = "deferStop" /\ err' = "err") ]_vars

\* C4: in both variants a process that received a termination signal after
\* bootstrap does not end without Stop having been called on the network.
SignalNeverLost ==
    (~Alive /\ sigSinceBoot > 0) => stopCalls >= 1

\* C5: whenever the partition loop has built the specs, there are exactly
\* amountOfSubnets groups, group k is nodeNames[k*subnetSize .. (k+1)*subnetSize-1],
\* each has subnetSize members, the groups are pairwise disjoint and together
\* they are the first amountOfSubnets*subnetSize names; and for a count in
\* 0 .. len(nodeNames)/subnetSize the loop does not panic.
SpecsBuilt == variant = "multi" /\ pc = "create"
PartitionGroups ==
    /\ SpecsBuilt =>
         /\ Len(blockchainSpecs) = amountOfSubnets
         /\ \A k \in 0 .. amountOfSubnets - 1 :
               /\ Len(blockchainSpecs[k + 1]) = subnetSize
               /\ \A j \in 0 .. subnetSize - 1 :
                     blockchainSpecs[k + 1][j + 1] = nodeNames[k * subnetSize + j + 1]
         /\ \A k, l \in 1 .. Len(blockchainSpecs) :
               k # l => Range(blockchainSpecs[k]) \cap Range(blockchainSpecs[l]) = {}
         /\ UNION {Range(blockchainSpecs[k]) : k \in 1 .. Len(blockchainSpecs)}
               = {nodeNames[j] : j \in 1 .. amountOfSubnets * subnetSize}
    /\ (/\ variant = "multi" /\ pc \in {"makeSpecs", "partition", "deferStop"}
        /\ amountOfSubnets >= 0 /\ amountOfSubnets <= Len(nodeNames)
        /\ amountOfSubnets * subnetSize <= Len(nodeNames)) => err # "panic"
PartitionWithSpareNodes ==
    /\ SpecsBuilt /\ amountOfSubnets = MaxSubnets
    /\ Len(nodeNames) > amountOfSubnets * subnetSize

\* C6: every published URL is for the node at its list position and carries the
\* chain ID the library registered for the subnet that node participates in
\* (chains[0] in the history variant, chains[i/subnetSize] in the multi
\* variant); the chain index is within the returned list; one URL per node.
UrlUsesOwnChain ==
    /\ \A u \in 1 .. Len(rpcUrls) :
          /\ rpcUrls[u][1] = nodeNames[u]
          /\ \E r \in 1 .. Len(registry) :
                registry[r][1] = rpcUrls[u][3] /\ rpcUrls[u][1] \in registry[r][2]
          /\ rpcUrls[u][3] =
                chains[IF variant = "history" THEN 1 ELSE ((u - 1) \div subnetSize) + 1]
    /\ (pc = "publish" /\ i < Len(nodeNames)) =>
          (IF variant = "history" THEN 0 ELSE i \div subnetSize) < Len(chains)
    /\ Len(rpcUrls) <= Len(nodeNames)
    /\ pc = "running" => Len(rpcUrls) = Len(nodeNames)
NineNodesThreeSubnets ==
    /\ variant = "multi" /\ pc = "running"
    /\ amountOfSubnets = 3 /\ Len(nodeNames) = 9
    /\ rpcUrls[5][3] = chains[2]

\* C7: a history run that loaded k records uses shift 10*k, adds it to both
\* ports of every node and records it in the record it appends; the records of
\* the persisted history have pairwise distinct PortShifting values.
PortShiftFromHistory ==
    /\ (variant = "history" /\ pc \in {"newNetwork", "getNetworkID"}) =>
          shift = defaultShift * Len(configs)
    /\ (variant = "history" /\ pc = "writeFile") =>
          /\ shift = defaultShift * (Len(configs) - 1)
          /\ configs[Len(configs)].PortShifting = shift
    /\ variant = "history" =>
          \A k \in 1 .. Len(nodePorts) :
             /\ nodePorts[k][1] = DefaultHTTPPort + 2 * (k - 1) + shift
             /\ nodePorts[k][2] = DefaultHTTPPort + 2 * (k - 1) + 1 + shift
    /\ \A k \in 1 .. Len(file.records) :
          file.records[k].PortShifting = defaultShift * (k - 1)
    /\ \A k, l \in 1 .. Len(file.records) :
          k # l => file.records[k].PortShifting # file.records[l].PortShifting
ThreeRunsRecorded ==
    /\ file.state = "ok" /\ Len(file.records) = 3
    /\ variant = "history" /\ pc = "notify" /\ shift = 2 * defaultShift

\* C8: a run that ends on a fatal setup error exits with status 1, having
\* called Stop if the error came after bootstrap; a run that ends on a
\* shutdown signal exits with status 0.
HistoryLoadFailed == variant = "history" /\ pc = "exited" /\ err = "nil" /\ ~Bootstrapped
ExitCodeTellsOutcome ==
    pc = "exited" =>
        /\ (err = "err" \/ HistoryLoadFailed) =>
              (exitCode = 1 /\ (Bootstrapped => stopCalls >= 1))
        /\ (err = "nil" /\ Bootstrapped) => exitCode = 0

\* C9: while bootstrap has not succeeded (and after it failed) Stop is not
\* called, no record is appended or written, no later phase is started, and a
\* failed bootstrap ends the process with status 1.
LoadedHistory == IF file.state = "ok" THEN file.records ELSE <<>>
BootstrapFailureAborts ==
    ~Bootstrapped =>
        /\ stopCalls = 0
        /\ pc \in {"main", "newConfig", "newNetwork", "exited", "killed"}
        /\ lpc = "off"
        /\ nodeNames = <<>> /\ copied = {} /\ blockchainSpecs = <<>>
        /\ chains = <<>> /\ rpcUrls = <<>>
        /\ (variant = "history" /\ pc \notin {"main", "killed"}) => configs = LoadedHistory
        /\ configs \in {<<>>, LoadedHistory}
        /\ (variant = "history" /\ nodePorts # <<>>) => shift = defaultShift * Len(configs)
        /\ (pc = "exited" /\ err = "err") => exitCode = 1
BootstrapFailed ==
    /\ variant = "history" /\ pc = "exited" /\ err = "err" /\ ~Bootstrapped
    /\ nodePorts # <<>> /\ Len(file.records) = 1

\* C10 as stated: with a history file that is absent, unreadable or unparsable
\* the run proceeds with no prior records and shift 0.
UnreadableHistoryDefaultsToZero ==
    (/\ variant = "history" /\ file.state \in {"absent", "unreadable", "corrupt"}
     /\ err = "nil" /\ pc \notin {"main", "killed"})
        => (pc # "exited" /\ Len(configs) <= 1 /\ shift = 0)

\* C10 amended: with an absent history file the run proceeds with no prior
\* records and bootstraps with shift 0; with a file that exists but cannot be
\* read or parsed, main returns before bootstrap: no network is created.
AbsentHistoryDefaultsToZero ==
    /\ (variant = "history" /\ file.state = "absent" /\ pc \notin {"main", "killed"}) =>
          /\ ~HistoryLoadFailed
          /\ Len(configs) <= 1 /\ shift = 0
          /\ \A k \in 1 .. Len(nodePorts) : nodePorts[k] = BasePorts(k - 1)
    /\ (/\ variant = "history" /\ file.state \in {"unreadable", "corrupt"}
        /\ err = "nil" /\ pc \notin {"main", "killed"}) =>
          (pc = "exited" /\ ~Bootstrapped /\ nodePorts = <<>> /\ stopCalls = 0)
AbsentHistoryBootstraps ==
    /\ variant = "history" /\ file.state = "absent"
    /\ pc = "getNetworkID" /\ Bootstrapped /\ shift = 0 /\ configs = <<>>

\* a subnet count whose subnetSize-fold is the node count actually requested
\* (no wrap in the uint32 conversion) and is not negative
ValidCount(n) ==
    /\ n >= 0 /\ n <= 65535
    /\ RequestedNodes(n) =
          [hi |-> (subnetSize * n) \div 65536, lo |-> (subnetSize * n) % 65536]

\* C11: in the multi-subnet variant an invalid subnet count never gets as far
\* as a started network, and never ends in a panic of the partition code.
InvalidCountRejectedBeforeBootstrap ==
    (variant = "multi" /\ ~ValidCount(amountOfSubnets)) =>
        (~Bootstrapped /\ err # "panic")

\* C12: the copy helper returns an error without creating or touching the
\* destination when the source is missing or is not a regular file; when it
\* returns no error the destination is a file holding the source's content with
\* mode 0777, and the byte count returned is the source's length.
CopyContract ==
    /\ (src.kind \in {"missing", "dir"}) =>
          (dst = dst0 /\ (cpc = "done" => ret.err))
    /\ (cpc = "done" /\ ~ret.err) =>
          /\ src.kind = "regular"
          /\ dst = File("regular", src.content, "0777")
          /\ ret.n = Len(src.content)
CopiedExecutable ==
    /\ cpc = "done" /\ ~ret.err
    /\ Len(src.content) = MaxBytes
    /\ dst0.kind = "regular" /\ dst0.content # src.content
    /\ dst.mode = "0777"

\* the phases of run after bootstrap, and the phase each is followed by when it
\* returns no error
PipelinePhases ==
    {"await1", "getNodeNames", "copy", "makeSpecs", "partition", "create",
     "await2", "publish"}
NextPhase(p) ==
    CASE p = "await1"       -> "getNodeNames"
      [] p = "getNodeNames" -> "copy"
      [] p = "copy"         -> IF variant = "multi" THEN "makeSpecs" ELSE "create"
      [] p = "makeSpecs"    -> "partition"
      [] p = "partition"    -> "create"
      [] p = "create"       -> "await2"
      [] p = "await2"       -> "publish"
      [] p = "publish"      -> "running"
\* run has returned or the process is gone
Cleanup == {"deferStop", "stopping", "exited", "killed"}

\* C13: in both variants every phase is left either for the phase that follows
\* it in program order, with no error, or for the cleanup; CreateBlockchains is
\* reached only with the plugin copied to every node; the second health wait
\* and the publication are reached only with the chains created; and once a
\* phase has returned an error the run is in its cleanup.
PhasesInOrder ==
    [][ /\ \A p \in PipelinePhases :
              (pc = p /\ pc' # p) =>
                  \/ pc' = NextPhase(p) /\ err' = "nil"
                  \/ pc' \in {"deferStop", "killed"}
        /\ (pc' \in PipelinePhases \cup {"running"} /\ pc' # pc) =>
              (pc' = "await1" \/ (pc \in PipelinePhases /\ pc' = NextPhase(pc)))
        /\ (pc' \in {"create", "await2", "publish", "running"}) =>
              copied' = Range(nodeNames')
        /\ (pc' \in {"await2", "publish", "running"}) =>
              Len(chains') = Len(blockchainSpecs')
        /\ (pc' = "running") => Len(rpcUrls') = Len(nodeNames')
        /\ (err' # "nil") => pc' \in Cleanup ]_vars
ReachedRunning ==
    /\ pc = "running" /\ err = "nil" /\ sigCount = 0
    /\ nodeNames # <<>> /\ chains # <<>>
    /\ Len(rpcUrls) = Len(nodeNames)

\* C14: in the history variant the persisted history is append-only across
\* runs, overlapping ones included: every record of the file stays in it at its
\* place, and every write that succeeds adds exactly one record.
HistoryAppendOnly ==
    [][ /\ \A k \in 1 .. Len(file.records) :
              /\ file'.state = "ok"
              /\ Len(file'.records) >= k
              /\ file'.records[k] = file.records[k]
        /\ (file' # file /\ file'.state = "ok") =>
              Len(file'.records) = Len(file.records) + 1 ]_vars

\* the records a process about to write had loaded from the file at startup
LoadedByWriter ==
    (IF pc = "writeFile" THEN {SubSeq(configs, 1, Len(configs) - 1)} ELSE {})
        \cup (IF peerPc = "loaded" THEN {peerConfigs} ELSE {})

\* C14 amended: every successful write of the history file stores the records
\* the writing run loaded at startup, unchanged and in order, followed by one
\* new record whose shift is defaultShift times their number; the only other
\* change of the file is a failed write that leaves it truncated.
WriteAppendsToLoaded ==
    [][ (file' # file) =>
          \/ /\ pc = "writeFile" /\ pc' = "deferStop" /\ err' = "err"
             /\ file' = HistoryFile("corrupt", <<>>)
          \/ \E loaded \in LoadedByWriter :
                /\ file'.state = "ok"
                /\ Len(file'.records) = Len(loaded) + 1
                /\ SubSeq(file'.records, 1, Len(loaded)) = loaded
                /\ file'.records[Len(loaded) + 1].PortShifting
                      = defaultShift * Len(loaded) ]_vars
SecondRunAppended ==
    /\ variant = "history" /\ pc = "notify" /\ runs = 2
    /\ file = HistoryFile("ok", configs)
    /\ Len(configs) = 2 /\ configs[2].PortShifting = defaultShift

\* C15: in both variants, while the run is Running and no termination signal
\* has been delivered, Stop has not been called and run has not returned; and a
\* process that got its first signal while Running has, once it is over, ended
\* by run returning nil with the network stopped.
RunningEndsOnlyByShutdown ==
    /\ (pc = "running" /\ sigCount = 0) => (stopCalls = 0 /\ nw = "up")
    /\ (Bootstrapped /\ err = "nil" /\ pc \in {"deferStop", "stopping", "exited"}) =>
          sigCount >= 1
    /\ (sigAt = "running" /\ ~Alive) =>
          (pc = "exited" /\ err = "nil" /\ stopCalls >= 1 /\ nw = "stopped")

\* signal.Reset has been executed by the code that handled the first signal
Retired ==
    IF variant = "multi" THEN Bootstrapped /\ ~notified
    ELSE lpc \in {"closeSig", "closeDone", "done"}

\* C16: in both variants nothing is sent on the signal channel once it is
\* closed, and a process that got a second signal after the listener was
\* retired does not end with the network never stopped.
SecondSignalHarmless ==
    /\ signalChanClosed => ~notified
    /\ (Retired /\ sigCount >= 2 /\ ~Alive) => (stopCalls >= 1 /\ nw = "stopped")

\* run returned the error of the plugin loop: of GetNode or copy for node i
CopyFailed ==
    /\ err = "err" /\ nodeNames # <<>> /\ i < Len(nodeNames)
    /\ blockchainSpecs = <<>>

\* C17: in both variants a failing copy for some node returns from run at once
\* with what was copied left as it is; from then on no later node gets a copy,
\* CreateBlockchains is never called, the files copied to the earlier nodes
\* stay, and a run that ends has gone through the deferred Stop and exits 1.
CopyFailsFast ==
    [][ /\ (pc = "copy" /\ pc' # "copy" /\ i < Len(nodeNames) /\ pc' # "killed") =>
              /\ pc' = "deferStop" /\ err' = "err"
              /\ i' = i /\ copied' = copied
              /\ CopyFailed'
        /\ CopyFailed' =>
              /\ pc' \in Cleanup
              /\ copied' = {nodeNames'[k] : k \in 1 .. i'}
              /\ chains' = <<>> /\ registry' = <<>> /\ rpcUrls' = <<>>
              /\ (pc' = "exited") =>
                    /\ exitCode' = 1 /\ stopCalls' >= 1 /\ nw' = "stopped"
                    /\ (sigCount' = 0) => stopCalls' = 1
        /\ (CopyFailed /\ pc' # "main") =>
              (CopyFailed' /\ i' = i /\ copied' = copied) ]_vars
CopyFailedMidway ==
    /\ CopyFailed /\ pc = "exited"
    /\ i >= 1 /\ copied = {nodeNames[k] : k \in 1 .. i}

\* run returned the error of the history write: its record is in configs, the
\* listener was never started
WriteFailed ==
    /\ variant = "history" /\ err = "err" /\ Bootstrapped /\ lpc = "off"
    /\ configs # <<>> /\ shift = defaultShift * (Len(configs) - 1)

\* C18: in the history variant the file is written by the step that follows
\* GetNetworkID on a started network and by no other step of the run; a write
\* that succeeds stores what was loaded plus the record of this run, before the
\* first health wait starts, and nothing later in the run (a failing phase, a
\* signal) changes the file, so the next run finds the slot taken; a write
\* that fails sends run to its cleanup with no listener and no later phase
\* started, and such a run, when it returns, has called Stop exactly once.
RecordOncePerRun ==
    [][ variant = "history" =>
          /\ (pc' = "writeFile" /\ pc # "writeFile") =>
                (pc = "getNetworkID" /\ nw = "up" /\ Len(configs') = Len(configs) + 1)
          /\ (file' # file) => pc = "writeFile"
          /\ (pc = "writeFile" /\ pc' = "notify") =>
                /\ file' = HistoryFile("ok", configs)
                /\ configs[Len(configs)].PortShifting = shift
                /\ err' = "nil" /\ nodeNames = <<>>
          /\ (pc = "writeFile" /\ pc' = "deferStop") =>
                (file' \in {file, HistoryFile("corrupt", <<>>)} /\ WriteFailed')
          /\ (pc' = "await1") => file' = HistoryFile("ok", configs')
          /\ (pc = "newConfig" /\ pc' = "newNetwork" /\ file.state = "ok") =>
                shift' = defaultShift * Len(file.records)
          /\ WriteFailed' =>
                /\ pc' \in Cleanup /\ ~notified'
                /\ nodeNames' = <<>> /\ copied' = {} /\ chains' = <<>> /\ rpcUrls' = <<>>
                /\ (pc' = "exited") =>
                      (stopCalls' = 1 /\ nw' = "stopped" /\ exitCode' = 1) ]_vars
RecordKeptByFailedRun ==
    /\ variant = "history" /\ pc = "exited" /\ err = "err" /\ lpc # "off"
    /\ file = HistoryFile("ok", configs) /\ Len(configs) = 2
    /\ configs[2].PortShifting = defaultShift

====
